---------------------------- MODULE Spec2Model ----------------------------
(***************************************************************************)
(* Layered settings resolution of TerminalApp::TerminalSettings            *)
(* (src/cascadia/TerminalApp/TerminalSettings.cpp): a profile, its colour  *)
(* scheme, the global settings and the launch arguments are merged into    *)
(* one TerminalSettings snapshot; the snapshot's 16-entry colour table is  *)
(* read and written through GetColorTableEntry / SetColorTableEntry.       *)
(***************************************************************************)
EXTENDS Integers, Sequences, FiniteSets, TLC

VARIABLES
    profiles,   \* appSettings' profile registry: guid -> Profile
    schemes,    \* globals.GetColorSchemes(): scheme name -> ColorScheme
    globals,    \* appSettings.GlobalSettings()
    settings,   \* the TerminalSettings instance the caller holds: << >> or <<s>>
    ret,        \* what the last call returned or threw
    prev        \* what the BuildSettings call before the last one returned

vars == <<profiles, schemes, globals, settings, ret, prev>>
inputs == <<profiles, schemes, globals>>

---------------------------------------------------------------------------
(* Bounds of the model and constants of the program.                       *)

\* How many alternative GlobalSettings objects Init draws from.
NumGlobals == 2

\* COLOR_TABLE_SIZE, the extent of std::array _colorTable (TerminalSettings.h).
ColorTableSize == 16

\* The largest int32_t, the type of the index parameter.
INT_MAX == 2147483647

ColorTableIndexes == 0 .. (ColorTableSize - 1)

\* An optional value (IReference<T>): << >> when absent, <<v>> when present.
Absent == << >>
Some(v) == <<v>>
HasValue(o) == o # << >>
Value(o) == o[1]

---------------------------------------------------------------------------
(* Colours.  The registries hold colours by channel; the snapshot holds    *)
(* them packed in one uint32_t.                                            *)

Color(r, g, b, a) == [r |-> r, g |-> g, b |-> b, a |-> a]

\* til::color{ c } converted to uint32_t: a loss-free packing of the channels.
Pack(c) == c.r + (c.g * 256) + (c.b * 65536) + (c.a * 16777216)

\* The explicit colour a profile may give each channel.
ProfileForeground == Color(204, 204, 204, 0)
ProfileBackground == Color(1, 36, 86, 0)
ProfileSelectionBackground == Color(255, 255, 255, 1)
ProfileCursorColor == Color(255, 0, 0, 0)
ProfileTabColor == Color(0, 128, 0, 0)

\* Two schemes of the registry, each with four colours and a 16-entry palette.
Campbell ==
    [ Foreground |-> Color(242, 242, 242, 0),
      Background |-> Color(12, 12, 12, 0),
      SelectionBackground |-> Color(19, 19, 19, 0),
      CursorColor |-> Color(254, 254, 254, 0),
      Table |-> [i \in ColorTableIndexes |-> Color(12 + i, 2 * i, 218 - i, 0)] ]

OneHalfDark ==
    [ Foreground |-> Color(220, 223, 228, 0),
      Background |-> Color(40, 44, 52, 0),
      SelectionBackground |-> Color(71, 78, 93, 2),
      CursorColor |-> Color(97, 175, 239, 0),
      Table |-> [i \in ColorTableIndexes |-> Color(40 + (3 * i), 44 + i, 52, 0)] ]

SchemeRegistry == [n \in {"Campbell", "One Half Dark"} |->
                     IF n = "Campbell" THEN Campbell ELSE OneHalfDark]

\* The scheme names a profile may carry: none, two registered, one unknown.
SchemeNames == {"", "Campbell", "One Half Dark", "Solarized"}

---------------------------------------------------------------------------
(* Profiles, global settings, launch arguments.                            *)

DefaultGuid == "{default}"
VarGuid == "{alpha}"
AbsentGuid == "{absent}"
Guids == {DefaultGuid, VarGuid, AbsentGuid}

\* Profile::GetEvaluatedStartingDirectory / GetExpandedBackgroundImagePath:
\* environment variables of the raw path are expanded by the profile.
Expand(path) ==
    CASE path = "%USERPROFILE%" -> "C:/Users/me"
      [] path = "%APPDATA%/bg.png" -> "C:/Users/me/AppData/bg.png"
      [] OTHER -> path

\* The profile every registry holds: no scheme, no explicit colour.
DefaultProfile ==
    [ Guid |-> DefaultGuid, Name |-> "Default",
      HistorySize |-> 9001, SnapOnInput |-> TRUE, AltGrAliasing |-> TRUE,
      CursorHeight |-> 25, CursorShape |-> "bar",
      UseAcrylic |-> FALSE, AcrylicOpacity |-> 50,
      FontFace |-> "Cascadia Mono", FontSize |-> 12, FontWeight |-> 400,
      Padding |-> "8, 8, 8, 8",
      Commandline |-> "cmd.exe", StartingDirectory |-> "",
      TabTitle |-> "", SuppressApplicationTitle |-> FALSE,
      ColorSchemeName |-> "",
      Foreground |-> Absent, Background |-> Absent,
      SelectionBackground |-> Absent, CursorColor |-> Absent,
      ScrollState |-> "visible",
      BackgroundImagePath |-> "", BackgroundImageOpacity |-> 100,
      BackgroundImageStretchMode |-> "uniformToFill",
      BackgroundImageHorizontalAlignment |-> "center",
      BackgroundImageVerticalAlignment |-> "center",
      RetroTerminalEffect |-> FALSE, AntialiasingMode |-> "grayscale",
      TabColor |-> Absent ]

\* The second profile of the registry: every optional field varies.
VarProfile(fg, bg, sel, cur, scheme, tabTitle, dir) ==
    [ Guid |-> VarGuid, Name |-> "Alpha",
      HistorySize |-> 100, SnapOnInput |-> FALSE, AltGrAliasing |-> FALSE,
      CursorHeight |-> 50, CursorShape |-> "vintage",
      UseAcrylic |-> TRUE, AcrylicOpacity |-> 75,
      FontFace |-> "Consolas", FontSize |-> 10, FontWeight |-> 700,
      Padding |-> "0",
      Commandline |-> "bash", StartingDirectory |-> dir,
      TabTitle |-> tabTitle, SuppressApplicationTitle |-> TRUE,
      ColorSchemeName |-> scheme,
      Foreground |-> fg, Background |-> bg,
      SelectionBackground |-> sel, CursorColor |-> cur,
      ScrollState |-> "hidden",
      BackgroundImagePath |-> "%APPDATA%/bg.png", BackgroundImageOpacity |-> 40,
      BackgroundImageStretchMode |-> "fill",
      BackgroundImageHorizontalAlignment |-> "left",
      BackgroundImageVerticalAlignment |-> "top",
      RetroTerminalEffect |-> TRUE, AntialiasingMode |-> "cleartype",
      TabColor |-> Some(ProfileTabColor) ]

VarProfiles ==
    { VarProfile(fg, bg, sel, cur, scheme, tabTitle, dir) :
        fg \in {Absent, Some(ProfileForeground)},
        bg \in {Absent, Some(ProfileBackground)},
        sel \in {Absent, Some(ProfileSelectionBackground)},
        cur \in {Absent, Some(ProfileCursorColor)},
        scheme \in {"", "Campbell", "Solarized"},
        tabTitle \in {"", "Custom"},
        dir \in {"", "%USERPROFILE%"} }

ProfileRegistry(p) == [g \in {DefaultGuid, VarGuid} |->
                         IF g = DefaultGuid THEN DefaultProfile ELSE p]

GlobalSettings(k) ==
    [ DefaultProfile |-> DefaultGuid,
      InitialRows |-> 30 + k, InitialCols |-> 120 - k,
      WordDelimiters |-> IF k % 2 = 0 THEN " /()" ELSE " ",
      CopyOnSelect |-> (k % 2 = 0),
      ForceFullRepaintRendering |-> (k % 2 = 1),
      SoftwareRendering |-> (k % 2 = 0),
      ForceVTInput |-> (k % 2 = 1) ]

\* NewTerminalArgs: << >> is the null object, otherwise <<a>> with a's fields;
\* an empty string is a field the caller left out.
NoArgs == << >>
LaunchArgs ==
    { NoArgs } \cup
    { Some([ Profile |-> p, Commandline |-> c, StartingDirectory |-> d, TabTitle |-> t ]) :
        p \in {"", VarGuid, "Alpha", AbsentGuid},
        c \in {"", "zsh -l"},
        d \in {"", "%USERPROFILE%"},
        t \in {"", "Launch"} }

---------------------------------------------------------------------------
(* The snapshot.                                                           *)

\* A default-constructed TerminalSettings: the member initialisers of the
\* class, the state the constructor body starts from.
DefaultSettings ==
    [ HistorySize |-> 9001, SnapOnInput |-> TRUE, AltGrAliasing |-> TRUE,
      CursorHeight |-> 12, CursorShape |-> "vintage",
      ProfileName |-> "", UseAcrylic |-> FALSE, TintOpacity |-> 50,
      FontFace |-> "Consolas", FontSize |-> 12, FontWeight |-> 400,
      Padding |-> "8, 8, 8, 8",
      Commandline |-> "", StartingDirectory |-> "", StartingTitle |-> "",
      SuppressApplicationTitle |-> FALSE,
      DefaultForeground |-> Pack(Color(240, 240, 240, 0)),
      DefaultBackground |-> Pack(Color(0, 0, 0, 0)),
      SelectionBackground |-> Pack(Color(250, 250, 250, 0)),
      CursorColor |-> Pack(Color(255, 255, 255, 0)),
      ScrollState |-> "visible",
      BackgroundImage |-> "", BackgroundImageOpacity |-> 100,
      BackgroundImageStretchMode |-> "uniformToFill",
      BackgroundImageHorizontalAlignment |-> "center",
      BackgroundImageVerticalAlignment |-> "center",
      RetroTerminalEffect |-> FALSE, AntialiasingMode |-> "grayscale",
      TabColor |-> Absent,
      InitialRows |-> 30, InitialCols |-> 80,
      WordDelimiters |-> "", CopyOnSelect |-> FALSE,
      ForceFullRepaintRendering |-> FALSE, SoftwareRendering |-> FALSE,
      ForceVTInput |-> FALSE,
      colorTable |-> [i \in ColorTableIndexes |-> 0] ]

\* What a call ends with: a normal return, THROW_HR(E_INVALIDARG), the
\* std::out_of_range of std::array::at, or std::terminate (an exception
\* leaving a noexcept function).
Ok == "ok"
InvalidArgument == "InvalidArgument"
OutOfRange == "OutOfRange"
Terminate == "Terminate"

---------------------------------------------------------------------------
(* Colour table.                                                           *)

\* std::array::at(index): the int32_t index converts to size_t, so a
\* negative index becomes a value of at least 2^63 and is out of range.
AtInRange(index) == index >= 0 /\ index < ColorTableSize

\* uint32_t GetColorTableEntry(int32_t index) const noexcept
GetColorTableEntry(s, index) ==
    IF AtInRange(index)
    THEN [outcome |-> Ok, value |-> Some(s.colorTable[index])]
    ELSE [outcome |-> Terminate, value |-> Absent]

\* void SetColorTableEntry(int32_t index, uint32_t value)
SetColorTableEntry(s, index, value) ==
    LET colorTableCount == ColorTableSize IN
    IF index >= colorTableCount
    THEN [outcome |-> InvalidArgument, s |-> s]
    ELSE IF AtInRange(index)
    THEN [outcome |-> Ok, s |-> [s EXCEPT !.colorTable[index] = value]]
    ELSE [outcome |-> OutOfRange, s |-> s]

---------------------------------------------------------------------------
(* Colour scheme.                                                          *)

\* IMapView::TryLookup
TryLookup(map, name) == IF name \in DOMAIN map THEN Some(map[name]) ELSE Absent

\* The loop of _ApplyColorScheme: for (int i = 0; i < tableCount; i++)
RECURSIVE SetTableFrom(_, _, _, _)
SetTableFrom(s, table, i, tableCount) ==
    IF i < tableCount
    THEN LET r == SetColorTableEntry(s, i, Pack(table[i])) IN
         IF r.outcome = Ok
         THEN SetTableFrom(r.s, table, i + 1, tableCount)
         ELSE r
    ELSE [outcome |-> Ok, s |-> s]

\* A loop that stops one entry short.
_ApplyColorSchemeShort(s, scheme) ==
    LET s4 == [s EXCEPT !.DefaultForeground = Pack(scheme.Foreground),
                        !.DefaultBackground = Pack(scheme.Background),
                        !.SelectionBackground = Pack(scheme.SelectionBackground),
                        !.CursorColor = Pack(scheme.CursorColor)]
        table == scheme.Table
        tableCount == Cardinality(DOMAIN table)
    IN  SetTableFrom(s4, table, 0, tableCount - 1)

\* void _ApplyColorScheme(const ColorScheme& scheme)
_ApplyColorScheme(s, scheme) ==
    LET s4 == [s EXCEPT !.DefaultForeground = Pack(scheme.Foreground),
                        !.DefaultBackground = Pack(scheme.Background),
                        !.SelectionBackground = Pack(scheme.SelectionBackground),
                        !.CursorColor = Pack(scheme.CursorColor)]
        table == scheme.Table
        tableCount == Cardinality(DOMAIN table)
    IN  SetTableFrom(s4, table, 0, tableCount)

\* A lookup that falls back to some registered scheme when the name is unknown.
ApplyColorSchemeFallback(s, scheme, map) ==
    LET name == IF scheme \in DOMAIN map \/ DOMAIN map = {}
                THEN scheme ELSE CHOOSE n \in DOMAIN map : TRUE
        found == TryLookup(map, name)
    IN  IF HasValue(found)
        THEN LET r == _ApplyColorScheme(s, Value(found)) IN
             [outcome |-> r.outcome, value |-> IF r.outcome = Ok THEN Some(TRUE) ELSE Absent,
              s |-> r.s]
        ELSE [outcome |-> Ok, value |-> Some(FALSE), s |-> s]

\* bool ApplyColorScheme(const hstring& scheme, const IMapView<...>& schemes)
ApplyColorScheme(s, scheme, map) ==
    LET found == TryLookup(map, scheme) IN
    IF HasValue(found)
    THEN LET r == _ApplyColorScheme(s, Value(found)) IN
         [outcome |-> r.outcome, value |-> IF r.outcome = Ok THEN Some(TRUE) ELSE Absent,
          s |-> r.s]
    ELSE [outcome |-> Ok, value |-> Some(FALSE), s |-> s]

---------------------------------------------------------------------------
(* Profile layer.                                                          *)

\* A starting title that ignores the tab title.
StartingTitleOfName(profile) == profile.Name

\* GH#2373: the tab title if it exists, otherwise the profile name.
StartingTitleOf(profile) ==
    IF profile.TabTitle # "" THEN profile.TabTitle ELSE profile.Name

\* Explicit colours in which the cursor colour is written to the selection
\* background.
ApplyProfileColorsSwapped(s, profile) ==
    LET s1 == IF HasValue(profile.Foreground)
              THEN [s EXCEPT !.DefaultForeground = Pack(Value(profile.Foreground))]
              ELSE s
        s2 == IF HasValue(profile.Background)
              THEN [s1 EXCEPT !.DefaultBackground = Pack(Value(profile.Background))]
              ELSE s1
        s3 == IF HasValue(profile.SelectionBackground)
              THEN [s2 EXCEPT !.SelectionBackground = Pack(Value(profile.SelectionBackground))]
              ELSE s2
    IN  IF HasValue(profile.CursorColor)
        THEN [s3 EXCEPT !.SelectionBackground = Pack(Value(profile.CursorColor))]
        ELSE s3

\* Explicit colours written whether or not the profile sets them (an absent
\* colour reads as transparent black).
ApplyProfileColorsAlways(s, profile) ==
    LET get(o) == IF HasValue(o) THEN Pack(Value(o)) ELSE 0 IN
    [s EXCEPT !.DefaultForeground = get(profile.Foreground),
              !.DefaultBackground = get(profile.Background),
              !.SelectionBackground = get(profile.SelectionBackground),
              !.CursorColor = get(profile.CursorColor)]

\* The four explicit colours of the profile, each written if the profile sets it.
ApplyProfileColors(s, profile) ==
    LET s1 == IF HasValue(profile.Foreground)
              THEN [s EXCEPT !.DefaultForeground = Pack(Value(profile.Foreground))]
              ELSE s
        s2 == IF HasValue(profile.Background)
              THEN [s1 EXCEPT !.DefaultBackground = Pack(Value(profile.Background))]
              ELSE s1
        s3 == IF HasValue(profile.SelectionBackground)
              THEN [s2 EXCEPT !.SelectionBackground = Pack(Value(profile.SelectionBackground))]
              ELSE s2
    IN  IF HasValue(profile.CursorColor)
        THEN [s3 EXCEPT !.CursorColor = Pack(Value(profile.CursorColor))]
        ELSE s3

\* The end of _ApplyProfileSettings, after the colours.
ApplyProfileRest(s, profile) ==
    LET s1 == [s EXCEPT !.ScrollState = profile.ScrollState]
        s2 == IF profile.BackgroundImagePath # ""
              THEN [s1 EXCEPT !.BackgroundImage = Expand(profile.BackgroundImagePath)]
              ELSE s1
        s3 == [s2 EXCEPT
                 !.BackgroundImageOpacity = profile.BackgroundImageOpacity,
                 !.BackgroundImageStretchMode = profile.BackgroundImageStretchMode,
                 !.BackgroundImageHorizontalAlignment = profile.BackgroundImageHorizontalAlignment,
                 !.BackgroundImageVerticalAlignment = profile.BackgroundImageVerticalAlignment,
                 !.RetroTerminalEffect = profile.RetroTerminalEffect,
                 !.AntialiasingMode = profile.AntialiasingMode]
    IN  IF HasValue(profile.TabColor)
        THEN [s3 EXCEPT !.TabColor = Some(Pack(Value(profile.TabColor)))]
        ELSE s3

\* void _ApplyProfileSettings(const Profile& profile, const IMapView<...>& schemes)
_ApplyProfileSettings(s, profile, map) ==
    LET s1 == [s EXCEPT
                 !.HistorySize = profile.HistorySize,
                 !.SnapOnInput = profile.SnapOnInput,
                 !.AltGrAliasing = profile.AltGrAliasing,
                 !.CursorHeight = profile.CursorHeight,
                 !.CursorShape = profile.CursorShape,
                 !.ProfileName = profile.Name,
                 !.UseAcrylic = profile.UseAcrylic,
                 !.TintOpacity = profile.AcrylicOpacity,
                 !.FontFace = profile.FontFace,
                 !.FontSize = profile.FontSize,
                 !.FontWeight = profile.FontWeight,
                 !.Padding = profile.Padding,
                 !.Commandline = profile.Commandline]
        s2 == IF profile.StartingDirectory # ""
              THEN [s1 EXCEPT !.StartingDirectory = Expand(profile.StartingDirectory)]
              ELSE s1
        s3 == [s2 EXCEPT !.StartingTitle = StartingTitleOf(profile)]
        s4 == IF profile.SuppressApplicationTitle
              THEN [s3 EXCEPT !.SuppressApplicationTitle = profile.SuppressApplicationTitle]
              ELSE s3
        r5 == IF profile.ColorSchemeName # ""
              THEN ApplyColorScheme(s4, profile.ColorSchemeName, map)
              ELSE [outcome |-> Ok, value |-> Absent, s |-> s4]
    IN  IF r5.outcome # Ok
        THEN [outcome |-> r5.outcome, s |-> r5.s]
        ELSE [outcome |-> Ok, s |-> ApplyProfileRest(ApplyProfileColors(r5.s, profile), profile)]

---------------------------------------------------------------------------
(* Global layer.                                                           *)

\* A global layer whose last flag is copied from the flag before it.
_ApplyGlobalSettingsWrong(s, globalSettings) ==
    [s EXCEPT !.InitialRows = globalSettings.InitialRows,
              !.InitialCols = globalSettings.InitialCols,
              !.WordDelimiters = globalSettings.WordDelimiters,
              !.CopyOnSelect = globalSettings.CopyOnSelect,
              !.ForceFullRepaintRendering = globalSettings.ForceFullRepaintRendering,
              !.SoftwareRendering = globalSettings.SoftwareRendering,
              !.ForceVTInput = globalSettings.SoftwareRendering]

\* void _ApplyGlobalSettings(const GlobalAppSettings& globalSettings) noexcept
_ApplyGlobalSettings(s, globalSettings) ==
    [s EXCEPT !.InitialRows = globalSettings.InitialRows,
              !.InitialCols = globalSettings.InitialCols,
              !.WordDelimiters = globalSettings.WordDelimiters,
              !.CopyOnSelect = globalSettings.CopyOnSelect,
              !.ForceFullRepaintRendering = globalSettings.ForceFullRepaintRendering,
              !.SoftwareRendering = globalSettings.SoftwareRendering,
              !.ForceVTInput = globalSettings.ForceVTInput]

---------------------------------------------------------------------------
(* Composition.                                                            *)

\* CascadiaSettings::FindProfile(guid): the profile, or null.
FindProfile(registry, profileGuid) == TryLookup(registry, profileGuid)

\* CascadiaSettings::GetProfileForArgs(newTerminalArgs): the identity the
\* arguments name, as a guid or as a profile name; the default profile when
\* they name none.  A name no profile has resolves to no profile's identity.
GetProfileForArgs(registry, globalSettings, newTerminalArgs) ==
    IF ~HasValue(newTerminalArgs) \/ Value(newTerminalArgs).Profile = ""
    THEN globalSettings.DefaultProfile
    ELSE LET id == Value(newTerminalArgs).Profile
             named == {g \in DOMAIN registry : registry[g].Name = id}
         IN  IF id \in Guids THEN id
             ELSE IF named # {} THEN CHOOSE g \in named : TRUE
             ELSE AbsentGuid

\* A constructor that substitutes the default profile for an unknown one.
ConstructWithFallback(registry, globalSettings, map, profileGuid) ==
    LET profile == IF profileGuid \in DOMAIN registry
                   THEN registry[profileGuid]
                   ELSE registry[globalSettings.DefaultProfile]
        r == _ApplyProfileSettings(DefaultSettings, profile, map)
    IN  IF r.outcome # Ok THEN r
        ELSE [outcome |-> Ok, s |-> _ApplyGlobalSettings(r.s, globalSettings)]

\* TerminalSettings::TerminalSettings(const CascadiaSettings& appSettings, guid profileGuid)
Construct(registry, globalSettings, map, profileGuid) ==
    LET profile == FindProfile(registry, profileGuid) IN
    IF ~HasValue(profile)
    THEN [outcome |-> InvalidArgument, s |-> DefaultSettings]
    ELSE LET r == _ApplyProfileSettings(DefaultSettings, Value(profile), map) IN
         IF r.outcome # Ok THEN r
         ELSE [outcome |-> Ok, s |-> _ApplyGlobalSettings(r.s, globalSettings)]

\* Launch overrides that are written whenever an argument object is given.
ApplyLaunchArgsUnchecked(s, newTerminalArgs) ==
    IF HasValue(newTerminalArgs)
    THEN LET a == Value(newTerminalArgs) IN
         [s EXCEPT !.Commandline = a.Commandline,
                   !.StartingDirectory = a.StartingDirectory,
                   !.StartingTitle = a.TabTitle]
    ELSE s

\* The overrides of BuildSettings: if (newTerminalArgs) { ... }
ApplyLaunchArgs(s, newTerminalArgs) ==
    IF HasValue(newTerminalArgs)
    THEN LET a == Value(newTerminalArgs)
             s1 == IF a.Commandline # ""
                   THEN [s EXCEPT !.Commandline = a.Commandline] ELSE s
             s2 == IF a.StartingDirectory # ""
                   THEN [s1 EXCEPT !.StartingDirectory = a.StartingDirectory] ELSE s1
         IN  IF a.TabTitle # ""
             THEN [s2 EXCEPT !.StartingTitle = a.TabTitle] ELSE s2
    ELSE s

\* std::tuple<guid, TerminalSettings> BuildSettings(appSettings, newTerminalArgs):
\* the tuple returned, or the exception of the constructor.
BuildSettings(registry, globalSettings, map, newTerminalArgs) ==
    LET profileGuid == GetProfileForArgs(registry, globalSettings, newTerminalArgs)
        r == Construct(registry, globalSettings, map, profileGuid)
    IN  IF r.outcome # Ok
        THEN [outcome |-> r.outcome, value |-> Absent]
        ELSE [outcome |-> Ok,
              value |-> Some([guid |-> profileGuid,
                              settings |-> ApplyLaunchArgs(r.s, newTerminalArgs)])]

---------------------------------------------------------------------------
(* The calls a client makes, as actions.                                   *)

NoCall == [op |-> "none", arg |-> << >>, outcome |-> Ok, value |-> Absent]

\* The process runs until std::terminate.
Alive == ret.outcome # Terminate

\* Indexes and a value a client passes to the colour table.
IndexInputs == {-1, 0, ColorTableSize - 1, ColorTableSize, INT_MAX}
ValueInputs == {Pack(Color(1, 2, 3, 0))}

Init ==
    /\ \E p \in VarProfiles : profiles = ProfileRegistry(p)
    /\ schemes = SchemeRegistry
    /\ \E k \in 1 .. NumGlobals : globals = GlobalSettings(k)
    /\ settings = Absent
    /\ ret = NoCall
    /\ prev = Absent

\* new TerminalSettings(appSettings, profileGuid)
NewSettings(profileGuid) ==
    /\ Alive
    /\ LET r == Construct(profiles, globals, schemes, profileGuid) IN
       /\ settings' = IF r.outcome = Ok THEN Some(r.s) ELSE Absent
       /\ ret' = [op |-> "TerminalSettings", arg |-> profileGuid, outcome |-> r.outcome,
                  value |-> IF r.outcome = Ok THEN Some(r.s) ELSE Absent]
    /\ UNCHANGED <<inputs, prev>>

\* A BuildSettings that takes the scheme it applied out of the registry.
DoBuildSettingsConsuming(newTerminalArgs) ==
    /\ Alive
    /\ LET r == BuildSettings(profiles, globals, schemes, newTerminalArgs)
           g == GetProfileForArgs(profiles, globals, newTerminalArgs)
           used == IF g \in DOMAIN profiles THEN {profiles[g].ColorSchemeName} ELSE {}
       IN
       /\ settings' = IF r.outcome = Ok THEN Some(Value(r.value).settings) ELSE Absent
       /\ ret' = [op |-> "BuildSettings", arg |-> newTerminalArgs, outcome |-> r.outcome,
                  value |-> r.value]
       /\ schemes' = [n \in DOMAIN schemes \ used |-> schemes[n]]
    /\ UNCHANGED <<profiles, globals>>

\* TerminalSettings::BuildSettings(appSettings, newTerminalArgs)
DoBuildSettings(newTerminalArgs) ==
    /\ Alive
    /\ LET r == BuildSettings(profiles, globals, schemes, newTerminalArgs) IN
       /\ settings' = IF r.outcome = Ok THEN Some(Value(r.value).settings) ELSE Absent
       /\ ret' = [op |-> "BuildSettings", arg |-> newTerminalArgs, outcome |-> r.outcome,
                  value |-> r.value]
    /\ UNCHANGED inputs

CallBuildSettings(newTerminalArgs) ==
    /\ DoBuildSettings(newTerminalArgs)
    /\ UNCHANGED prev

\* The first of two BuildSettings calls on the same inputs.
FirstBuildSettings(newTerminalArgs) ==
    /\ ret.op = "none"
    /\ DoBuildSettings(newTerminalArgs)
    /\ UNCHANGED prev

\* The second call, with the arguments of the first; the caller keeps what
\* the first returned.
SecondBuildSettings ==
    /\ ret.op = "BuildSettings"
    /\ ~HasValue(prev)
    /\ DoBuildSettings(ret.arg)
    /\ prev' = Some(ret)

\* settings.ApplyColorScheme(scheme, schemes)
CallApplyColorScheme(scheme) ==
    /\ Alive
    /\ HasValue(settings)
    /\ LET r == ApplyColorScheme(Value(settings), scheme, schemes) IN
       /\ settings' = Some(r.s)
       /\ ret' = [op |-> "ApplyColorScheme", arg |-> scheme, outcome |-> r.outcome,
                  value |-> r.value]
    /\ UNCHANGED <<inputs, prev>>

\* settings.GetColorTableEntry(index)
CallGetColorTableEntry(index) ==
    /\ Alive
    /\ HasValue(settings)
    /\ LET r == GetColorTableEntry(Value(settings), index) IN
       ret' = [op |-> "GetColorTableEntry", arg |-> index, outcome |-> r.outcome,
               value |-> r.value]
    /\ UNCHANGED <<inputs, settings, prev>>

\* settings.SetColorTableEntry(index, value)
CallSetColorTableEntry(index, value) ==
    /\ Alive
    /\ HasValue(settings)
    /\ LET r == SetColorTableEntry(Value(settings), index, value) IN
       /\ settings' = Some(r.s)
       /\ ret' = [op |-> "SetColorTableEntry", arg |-> index, outcome |-> r.outcome,
                  value |-> Absent]
    /\ UNCHANGED <<inputs, prev>>

\* Composition: the constructor and BuildSettings.
Next ==
    \/ \E g \in Guids : NewSettings(g)
    \/ \E a \in LaunchArgs : CallBuildSettings(a)

Spec == Init /\ [][Next]_vars

\* Composition repeated on the same registries.
NextRepeat ==
    \/ \E a \in LaunchArgs : FirstBuildSettings(a)
    \/ SecondBuildSettings

SpecRepeat == Init /\ [][NextRepeat]_vars

\* A snapshot and the calls on it.
NextApi ==
    \/ \E g \in Guids : NewSettings(g)
    \/ \E n \in SchemeNames : CallApplyColorScheme(n)
    \/ \E i \in IndexInputs : CallGetColorTableEntry(i)
    \/ \E i \in IndexInputs, v \in ValueInputs : CallSetColorTableEntry(i, v)

\* The calls on a snapshot read none of the title and directory fields, so
\* the profiles here leave both empty.
InitApi ==
    /\ Init
    /\ profiles[VarGuid].TabTitle = ""
    /\ profiles[VarGuid].StartingDirectory = ""

SpecApi == InitApi /\ [][NextApi]_vars

---------------------------------------------------------------------------
(* What the properties below read from a state.                            *)

\* The last call was a composition that returned a snapshot.
Composed == ret.op \in {"TerminalSettings", "BuildSettings"} /\ ret.outcome = Ok

\* The last call was a composition; the identity it asked for.
Composing == ret.op \in {"TerminalSettings", "BuildSettings"}
RequestedGuid ==
    IF ret.op = "TerminalSettings" THEN ret.arg
    ELSE GetProfileForArgs(profiles, globals, ret.arg)

ResolvedProfile == profiles[RequestedGuid]
Snapshot == Value(settings)

\* The four distinguished colours and the colour table of a snapshot.
ColorsOf(s) == <<s.DefaultForeground, s.DefaultBackground, s.SelectionBackground,
                 s.CursorColor, s.colorTable>>

\* A colour channel: the profile's and scheme's field, and the snapshot's.
Channels == { <<"Foreground", "DefaultForeground">>,
              <<"Background", "DefaultBackground">>,
              <<"SelectionBackground", "SelectionBackground">>,
              <<"CursorColor", "CursorColor">> }

NoExplicitColor(p) == \A ch \in Channels : ~HasValue(p[ch[1]])

\* The launch arguments of the last BuildSettings set this field.
LaunchSets(field) ==
    /\ ret.op = "BuildSettings"
    /\ HasValue(ret.arg)
    /\ Value(ret.arg)[field] # ""

GlobalFields == {"InitialRows", "InitialCols", "WordDelimiters", "CopyOnSelect",
                 "ForceFullRepaintRendering", "SoftwareRendering", "ForceVTInput"}

---------------------------------------------------------------------------
(* C1: after a composition from a profile whose colour scheme is in the    *)
(* registry, each of the four colour channels of the snapshot holds the    *)
(* profile's explicit colour if the profile sets that channel, and the     *)
(* scheme's colour if the profile leaves it absent.                        *)
C1_ProfileColorOverridesScheme ==
    (Composed /\ ResolvedProfile.ColorSchemeName \in DOMAIN schemes) =>
        LET p == ResolvedProfile
            scheme == schemes[p.ColorSchemeName]
        IN  \A ch \in Channels :
                Snapshot[ch[2]] = IF HasValue(p[ch[1]])
                                  THEN Pack(Value(p[ch[1]]))
                                  ELSE Pack(scheme[ch[1]])

\* A profile with a registered scheme that sets the foreground and leaves
\* the background to the scheme.
C1_Witness ==
    /\ Composed
    /\ ResolvedProfile.ColorSchemeName = "Campbell"
    /\ HasValue(ResolvedProfile.Foreground)
    /\ ~HasValue(ResolvedProfile.Background)
    /\ HasValue(ResolvedProfile.CursorColor)
    /\ Snapshot.DefaultForeground = Pack(ProfileForeground)
    /\ Snapshot.DefaultBackground = Pack(Campbell.Background)
    /\ Snapshot.CursorColor = Pack(ProfileCursorColor)

(* C2: GetColorTableEntry(index) and SetColorTableEntry(index, value)      *)
(* succeed for every index in [0,16) and fail with InvalidArgument for     *)
(* every index outside it.                                                 *)
C2_IndexAccess ==
    ret.op \in {"GetColorTableEntry", "SetColorTableEntry"} =>
        /\ ret.arg \in ColorTableIndexes => ret.outcome = Ok
        /\ ret.arg \notin ColorTableIndexes => ret.outcome = InvalidArgument

\* A step that applies an unknown scheme name, or constructs settings for a
\* registered profile (which may name an unknown scheme).
C3_UnknownSchemeStep ==
    /\ \A n \in SchemeNames :
         (n \notin DOMAIN schemes /\ ret'.op = "ApplyColorScheme"
            /\ CallApplyColorScheme(n)) =>
            /\ ret'.outcome = Ok
            /\ ret'.value = Some(FALSE)
            /\ ColorsOf(Value(settings')) = ColorsOf(Value(settings))
    /\ \A g \in Guids :
         (g \in DOMAIN profiles /\ ret'.op = "TerminalSettings"
            /\ NewSettings(g)) =>
            /\ ret'.outcome = Ok
            /\ HasValue(settings')

(* C3: ApplyColorScheme with a name that is not in the registry returns    *)
(* false and leaves the four colours and the colour table of the snapshot  *)
(* as they were; and constructing settings for a registered profile        *)
(* succeeds, also when the profile names an unknown scheme.                *)
C3_UnknownSchemeNoMutation == [][C3_UnknownSchemeStep]_vars

\* An unknown name was applied to a snapshot that a profile with an unknown
\* scheme and an explicit foreground was composed into.
C3_Witness ==
    /\ ret.op = "ApplyColorScheme"
    /\ ret.arg = "Solarized"
    /\ ret.value = Some(FALSE)
    /\ HasValue(settings)
    /\ Snapshot.ProfileName = "Alpha"
    /\ profiles[VarGuid].ColorSchemeName = "Solarized"
    /\ Snapshot.DefaultForeground = Pack(ProfileForeground)
    /\ Snapshot.colorTable[0] = Pack(Color(1, 2, 3, 0))

(* C4: ApplyColorScheme with a name S of the registry returns true, and    *)
(* afterwards the four colours of the snapshot are S's and colour-table    *)
(* entry i is S's palette entry i for every i in 0..15.                    *)
C4_KnownSchemeApplied ==
    (ret.op = "ApplyColorScheme" /\ ret.arg \in DOMAIN schemes) =>
        LET scheme == schemes[ret.arg] IN
        /\ ret.outcome = Ok
        /\ ret.value = Some(TRUE)
        /\ \A ch \in Channels : Snapshot[ch[2]] = Pack(scheme[ch[1]])
        /\ \A i \in 0 .. 15 : Snapshot.colorTable[i] = Pack(scheme.Table[i])

\* A second scheme applied over a snapshot composed with another scheme and
\* an explicit cursor colour.
C4_Witness ==
    /\ ret.op = "ApplyColorScheme"
    /\ ret.arg = "One Half Dark"
    /\ ret.value = Some(TRUE)
    /\ Snapshot.ProfileName = "Alpha"
    /\ profiles[VarGuid].ColorSchemeName = "Campbell"
    /\ HasValue(profiles[VarGuid].CursorColor)
    /\ Snapshot.colorTable[15] = Pack(OneHalfDark.Table[15])

(* C5: a composition for a profile identity that is not in the registry    *)
(* fails with InvalidArgument, no field has been applied when it fails,    *)
(* and the caller gets no TerminalSettings instance, from the constructor  *)
(* and from BuildSettings alike.                                           *)
C5_UnknownProfileFails ==
    (Composing /\ RequestedGuid \notin DOMAIN profiles) =>
        /\ ret.outcome = InvalidArgument
        /\ ret.value = Absent
        /\ settings = Absent
        /\ Construct(profiles, globals, schemes, RequestedGuid).s = DefaultSettings

\* BuildSettings was called with launch arguments that name an absent profile.
C5_Witness ==
    /\ ret.op = "BuildSettings"
    /\ HasValue(ret.arg)
    /\ Value(ret.arg).Profile = AbsentGuid
    /\ Value(ret.arg).Commandline # ""
    /\ ret.outcome = InvalidArgument
    /\ settings = Absent

(* C6: in the snapshot BuildSettings returns, each of command line,        *)
(* starting directory and starting title is the launch argument if that    *)
(* argument is non-empty (the directory unexpanded) and otherwise the      *)
(* value of the profile layer; every other field is as the constructor     *)
(* left it.                                                                *)
C6_LaunchOverrides ==
    (ret.op = "BuildSettings" /\ ret.outcome = Ok) =>
        LET p == ResolvedProfile
            s == Value(ret.value).settings
            a == Value(ret.arg)
            untouched == DOMAIN s \ {"Commandline", "StartingDirectory", "StartingTitle"}
            built == Construct(profiles, globals, schemes, RequestedGuid).s
        IN  /\ s.Commandline = IF LaunchSets("Commandline")
                               THEN a.Commandline ELSE p.Commandline
            /\ s.StartingDirectory =
                  IF LaunchSets("StartingDirectory") THEN a.StartingDirectory
                  ELSE IF p.StartingDirectory # "" THEN Expand(p.StartingDirectory)
                  ELSE DefaultSettings.StartingDirectory
            /\ s.StartingTitle =
                  IF LaunchSets("TabTitle") THEN a.TabTitle
                  ELSE IF p.TabTitle # "" THEN p.TabTitle ELSE p.Name
            /\ \A f \in untouched : s[f] = built[f]

\* Launch arguments with only a tab title, for a profile with a directory.
C6_Witness ==
    /\ ret.op = "BuildSettings"
    /\ ret.outcome = Ok
    /\ HasValue(ret.arg)
    /\ Value(ret.arg).Commandline = ""
    /\ Value(ret.arg).StartingDirectory = ""
    /\ Value(ret.arg).TabTitle = "Launch"
    /\ Snapshot.StartingTitle = "Launch"
    /\ Snapshot.Commandline = "bash"
    /\ Snapshot.StartingDirectory = "C:/Users/me"

(* C7: when no launch argument sets the tab title, the starting title of   *)
(* the composed snapshot is the profile's tab title if that is non-empty   *)
(* and the profile's name otherwise; it is not empty when the name is not. *)
C7_StartingTitle ==
    (Composed /\ ~LaunchSets("TabTitle")) =>
        LET p == ResolvedProfile IN
        /\ Snapshot.StartingTitle = IF p.TabTitle # "" THEN p.TabTitle ELSE p.Name
        /\ p.Name # "" => Snapshot.StartingTitle # ""

\* A profile with the tab title "Custom", composed through BuildSettings.
C7_Witness ==
    /\ ret.op = "BuildSettings"
    /\ ret.outcome = Ok
    /\ HasValue(ret.arg)
    /\ ~LaunchSets("TabTitle")
    /\ ResolvedProfile.Name = "Alpha"
    /\ ResolvedProfile.TabTitle = "Custom"
    /\ Snapshot.StartingTitle = "Custom"

(* C8: after a composition the global-layer fields of the snapshot equal   *)
(* those of GlobalSettings, whatever the profile and the launch arguments; *)
(* and every other field of a constructed snapshot is as the profile and   *)
(* scheme layers wrote it.                                                 *)
C8_GlobalsAuthoritative ==
    Composed =>
        /\ \A f \in GlobalFields : Snapshot[f] = globals[f]
        /\ ret.op = "TerminalSettings" =>
             LET layer == _ApplyProfileSettings(DefaultSettings, ResolvedProfile, schemes).s
             IN  \A f \in DOMAIN Snapshot \ GlobalFields : Snapshot[f] = layer[f]

\* A composition with every launch argument set, from a profile with a scheme.
C8_Witness ==
    /\ Composed
    /\ LaunchSets("Commandline") /\ LaunchSets("StartingDirectory") /\ LaunchSets("TabTitle")
    /\ ResolvedProfile.ColorSchemeName = "Campbell"
    /\ Snapshot.InitialRows = globals.InitialRows
    /\ Snapshot.InitialRows # DefaultSettings.InitialRows
    /\ Snapshot.ForceVTInput # Snapshot.SoftwareRendering

(* C9: a composition from a profile with no colour scheme and no explicit  *)
(* colour leaves the four colours and the 16 colour-table entries at the   *)
(* values the snapshot was constructed with.                               *)
C9_BaselineColors ==
    (Composed /\ ResolvedProfile.ColorSchemeName = "" /\ NoExplicitColor(ResolvedProfile)) =>
        ColorsOf(Snapshot) = ColorsOf(DefaultSettings)

\* Such a profile composed through BuildSettings with launch arguments.
C9_Witness ==
    /\ ret.op = "BuildSettings"
    /\ ret.outcome = Ok
    /\ LaunchSets("Commandline")
    /\ ResolvedProfile.Name = "Alpha"
    /\ ResolvedProfile.ColorSchemeName = ""
    /\ NoExplicitColor(ResolvedProfile)
    /\ ColorsOf(Snapshot) = ColorsOf(DefaultSettings)

\* The second run returned what the first did.
C10_SameResult ==
    (HasValue(prev) /\ Value(prev).arg = ret.arg) =>
        /\ Value(prev).outcome = ret.outcome
        /\ Value(prev).value = ret.value

=============================================================================
